---------------------------- MODULE Spec2Model ----------------------------
(***************************************************************************)
(* A model of the regular-expression engine of src/src/regex.rs:           *)
(* RegexPattern::parse (parse_fragment / parse_sequence), the tree         *)
(* operations RegexClass::min_size and RegexClass::matches, and the        *)
(* anchor-aware scan RegexPattern::is_contained_in.                        *)
(*                                                                         *)
(* Strings.  A Rust &str is UTF-8: the parser walks a pattern by           *)
(* characters (Chars), while the matcher slices the haystack by BYTE index *)
(* (&haystack[consumed..]) and counts one unit per matched character.      *)
(* A string is modelled as a sequence of characters, each with its UTF-8   *)
(* width (len_utf8); a slice at a byte index that is past the end or not   *)
(* on a character boundary panics, as str indexing does.                   *)
(***************************************************************************)
EXTENDS Integers, Sequences, FiniteSets, TLC

\* ------------------------------------------------------------------------
\* Characters
\* ------------------------------------------------------------------------

\* '\n'
LF == "\n"

\* A character outside ASCII (two bytes in UTF-8), e.g. U+00E9.
Wide == "U+00E9"

\* char::len_utf8 for the characters of the model.
len_utf8(c) == IF c = Wide THEN 2 ELSE 1

\* '0'..='9'
DigitChars == {"0", "1", "2", "3", "4", "5", "6", "7", "8", "9"}

\* 'a'..='z' | 'A'..='Z'
LetterChars ==
    {"a", "b", "c", "d", "e", "f", "g", "h", "i", "j", "k", "l", "m",
     "n", "o", "p", "q", "r", "s", "t", "u", "v", "w", "x", "y", "z",
     "A", "B", "C", "D", "E", "F", "G", "H", "I", "J", "K", "L", "M",
     "N", "O", "P", "Q", "R", "S", "T", "U", "V", "W", "X", "Y", "Z"}

Range(s) == {s[i] : i \in 1..Len(s)}

\* ------------------------------------------------------------------------
\* enum RegexClass.  Every node is a record of one shape:
\*   t    the variant,           c    the character of Char,
\*   set  the Vec<char> and pol the bool of CharGroup,
\*   kids the boxed child (OneOrMore, Optional) or the Vec<RegexClass>
\*        (Sequence, Alternation).
\* ------------------------------------------------------------------------

Leaf(t) == [t |-> t, c |-> "", set |-> <<>>, pol |-> TRUE, kids |-> <<>>]

Char(c)            == [Leaf("Char") EXCEPT !.c = c]
AlphaNum           == Leaf("AlphaNum")
Digit              == Leaf("Digit")
Wildcard           == Leaf("Wildcard")
CharGroup(set, pol) == [Leaf("CharGroup") EXCEPT !.set = set, !.pol = pol]
OneOrMore(pat)     == [Leaf("OneOrMore") EXCEPT !.kids = <<pat>>]
Optional(pat)      == [Leaf("Optional") EXCEPT !.kids = <<pat>>]
Sequence(seq)      == [Leaf("Sequence") EXCEPT !.kids = seq]
Alternation(seq)   == [Leaf("Alternation") EXCEPT !.kids = seq]
OneOrMorePlaceholder == Leaf("OneOrMorePlaceholder")
OptionalPlaceholder  == Leaf("OptionalPlaceholder")
Empty              == Leaf("Empty")

\* ------------------------------------------------------------------------
\* The parser.  A Chars iterator over the pattern p is the number i of
\* characters already taken: chars.next() yields p[i+1] and leaves i+1, or
\* None when i = Len(p).
\*
\* A parsing result is a record
\*   ok |-> TRUE,  node, i (the iterator afterwards), stopped_at
\*   ok |-> FALSE, err  (the bail! message)
\* stopped_at is <<>> for None and <<chr>> for Some(chr).
\* ------------------------------------------------------------------------

ParseOk(node, i, stopped_at) ==
    [ok |-> TRUE, node |-> node, i |-> i, stopped_at |-> stopped_at, err |-> ""]

ParseErr(msg) ==
    [ok |-> FALSE, node |-> Empty, i |-> 0, stopped_at |-> <<>>, err |-> msg]

RECURSIVE parse_fragment(_, _)
RECURSIVE parse_sequence_loop(_, _, _, _)
RECURSIVE parse_group_loop(_, _, _)
RECURSIVE parse_bracket_loop(_, _, _, _)

\* regex.rs 163-174: the `while let Some(chr) = chars.next()` of a bracket
\* expression, with the set and the polarity collected so far.
parse_bracket_loop(p, i, set, polarity) ==
    IF i >= Len(p)
    THEN ParseErr("brackets ([ ]) not balanced")
    ELSE LET chr == p[i + 1] IN
         CASE chr = "]" -> ParseOk(CharGroup(set, polarity), i + 1, <<>>)
           [] chr = "^" ->
                IF set = <<>>
                THEN parse_bracket_loop(p, i + 1, set, FALSE)
                ELSE parse_bracket_loop(p, i + 1, Append(set, "^"), polarity)
           [] OTHER ->
                IF chr \in Range(set)
                THEN parse_bracket_loop(p, i + 1, set, polarity)
                ELSE parse_bracket_loop(p, i + 1, Append(set, chr), polarity)

\* regex.rs 199-235: parse_sequence(chars, stop).  stop is the set of the
\* characters of the &str stop.
parse_sequence(p, i, stop) == parse_sequence_loop(p, i, stop, <<>>)

\* The loop of a group with the push placed after the test of the
\* terminator: the alternative that ends at ) is dropped.
parse_group_loop_push_late(p, i, alternatives) ==
    LET r == parse_sequence(p, i, {"|", ")"}) IN
    IF r.ok
    THEN IF r.stopped_at = <<")">>
         THEN ParseOk(Alternation(alternatives), r.i, <<>>)
         ELSE parse_group_loop(p, r.i, Append(alternatives, r.node))
    ELSE ParseErr("parentheses not balanced")

\* regex.rs 175-188: the loop of a group, with the alternatives so far.
\* Any Err of parse_sequence is replaced by "parentheses not balanced".
parse_group_loop(p, i, alternatives) ==
    LET r == parse_sequence(p, i, {"|", ")"}) IN
    IF r.ok
    THEN LET alts == Append(alternatives, r.node) IN
         IF r.stopped_at = <<")">>
         THEN ParseOk(Alternation(alts), r.i, <<>>)
         ELSE parse_group_loop(p, r.i, alts)
    ELSE ParseErr("parentheses not balanced")

\* regex.rs 152-197
parse_fragment(p, i) ==
    IF i >= Len(p)
    THEN ParseOk(Empty, i, <<>>)
    ELSE LET chr == p[i + 1] IN
         CASE chr = "\\" ->
                IF i + 1 >= Len(p)
                THEN ParseErr("trailing backlash (\\)")
                ELSE LET esc == p[i + 2] IN
                     CASE esc = "d" -> ParseOk(Digit, i + 2, <<>>)
                       [] esc = "w" -> ParseOk(AlphaNum, i + 2, <<>>)
                       [] OTHER     -> ParseOk(Char(esc), i + 2, <<>>)
           [] chr = "[" -> parse_bracket_loop(p, i + 1, <<>>, TRUE)
           [] chr = "(" -> parse_group_loop(p, i + 1, <<>>)
           [] chr = "+" -> ParseOk(OneOrMorePlaceholder, i + 1, <<>>)
           [] chr = "?" -> ParseOk(OptionalPlaceholder, i + 1, <<>>)
           [] chr = "." -> ParseOk(Wildcard, i + 1, <<>>)
           [] OTHER     -> ParseOk(Char(chr), i + 1, <<>>)

\* seq.pop() followed by seq.push(wrapped)
PopPush(seq, wrapped) == Append(SubSeq(seq, 1, Len(seq) - 1), wrapped)

\* regex.rs 201-234: the loop of parse_sequence, with seq so far.
parse_sequence_loop(p, i, stop, seq) ==
    LET next == parse_fragment(p, i) IN
    IF ~next.ok
    THEN next
    ELSE CASE next.node.t = "Empty" ->
                IF stop = {}
                THEN ParseOk(Sequence(seq), next.i, <<>>)
                ELSE ParseErr("unexpected end of stream")
           [] next.node.t = "Char" ->
                IF next.node.c \in stop
                THEN ParseOk(Sequence(seq), next.i, <<next.node.c>>)
                ELSE parse_sequence_loop(p, next.i, stop, Append(seq, next.node))
           [] next.node.t = "OptionalPlaceholder" ->
                IF seq # <<>>
                THEN parse_sequence_loop(p, next.i, stop,
                                         PopPush(seq, Optional(seq[Len(seq)])))
                ELSE ParseErr("repetition-operator operand invalid")
           [] next.node.t = "OneOrMorePlaceholder" ->
                IF seq # <<>>
                THEN parse_sequence_loop(p, next.i, stop,
                                         PopPush(seq, OneOrMore(seq[Len(seq)])))
                ELSE ParseErr("repetition-operator operand invalid")
           [] OTHER ->
                parse_sequence_loop(p, next.i, stop, Append(seq, next.node))

\* pattern.starts_with('^')  /  pattern.ends_with('$')
starts_with(s, c) == Len(s) > 0 /\ s[1] = c
ends_with(s, c)   == Len(s) > 0 /\ s[Len(s)] = c

\* struct RegexPattern, or the Err of parse.
PatternOk(at_start, until_end, sequence) ==
    [ok |-> TRUE, at_start |-> at_start, until_end |-> until_end,
     sequence |-> sequence, err |-> ""]

PatternErr(msg) ==
    [ok |-> FALSE, at_start |-> FALSE, until_end |-> FALSE,
     sequence |-> Empty, err |-> msg]

\* regex.rs 238-257: RegexPattern::parse
parse(pattern) ==
    LET at_start  == starts_with(pattern, "^")
        p1        == IF at_start THEN SubSeq(pattern, 2, Len(pattern)) ELSE pattern
        until_end == ends_with(p1, "$")
        p2        == IF until_end THEN SubSeq(p1, 1, Len(p1) - 1) ELSE p1
        r         == parse_sequence(p2, 0, {})
    IN  IF r.ok THEN PatternOk(at_start, until_end, r.node) ELSE PatternErr(r.err)

\* ------------------------------------------------------------------------
\* Byte-indexed string slices
\* ------------------------------------------------------------------------

RECURSIVE byte_len(_)
\* str::len: the length of a string in bytes.
byte_len(s) == IF s = <<>> THEN 0 ELSE len_utf8(Head(s)) + byte_len(Tail(s))

\* The byte index at which the (k+1)-th character of s starts.
byte_index(s, k) == byte_len(SubSeq(s, 1, k))

\* str::is_char_boundary
is_char_boundary(s, idx) == \E k \in 0..Len(s) : byte_index(s, k) = idx

\* Whether &s[idx..] is a slice; it panics otherwise.
slice_ok(s, idx) == idx <= byte_len(s) /\ is_char_boundary(s, idx)

\* s[idx..].chars().next(): <<>> for None, <<c>> for Some(c).
first_char(s, idx) ==
    IF idx >= byte_len(s)
    THEN <<>>
    ELSE <<s[CHOOSE k \in 1..Len(s) : byte_index(s, k - 1) = idx]>>

RECURSIVE len_no_newline_from(_, _)
\* regex.rs 140-142: the while loop of len_no_newline from `index`.
len_no_newline_from(text, index) ==
    IF /\ index > 0
       /\ \E k \in 1..Len(text) : byte_index(text, k) = index /\ text[k] = LF
    THEN len_no_newline_from(text, index - 1)
    ELSE index

\* regex.rs 138-144
len_no_newline(text) == len_no_newline_from(text, byte_len(text))

\* ------------------------------------------------------------------------
\* RegexClass::min_size  (Result<usize>)
\* ------------------------------------------------------------------------

\* std::usize::MAX, as far as TLC's integers go.  It is the value of
\* min_size for an Alternation without branches only.
USIZE_MAX == 2147483647

SizeOk(v) == [ok |-> TRUE, v |-> v]
SizeErr   == [ok |-> FALSE, v |-> 0]

Min(a, b) == IF a <= b THEN a ELSE b

RECURSIVE min_size(_)
RECURSIVE fold_ok_add(_, _, _)
RECURSIVE fold_ok_min(_, _, _)

\* regex.rs 35-37: seq.iter().map(min_size).fold_ok(0, Add::add) from item k.
fold_ok_add(seq, k, acc) ==
    IF k > Len(seq)
    THEN SizeOk(acc)
    ELSE LET r == min_size(seq[k]) IN
         IF r.ok THEN fold_ok_add(seq, k + 1, acc + r.v) ELSE SizeErr

\* regex.rs 41-43: seq.iter().map(min_size).fold_ok(usize::MAX, min) from item k.
fold_ok_min(seq, k, acc) ==
    IF k > Len(seq)
    THEN SizeOk(acc)
    ELSE LET r == min_size(seq[k]) IN
         IF r.ok THEN fold_ok_min(seq, k + 1, Min(acc, r.v)) ELSE SizeErr

\* regex.rs 32-55
min_size(node) ==
    CASE node.t = "Sequence"    -> fold_ok_add(node.kids, 1, 0)
      [] node.t = "OneOrMore"   -> min_size(node.kids[1])
      [] node.t = "Alternation" -> fold_ok_min(node.kids, 1, USIZE_MAX)
      [] node.t = "Optional"    -> SizeOk(0)
      [] node.t \in {"Wildcard", "AlphaNum", "Digit", "Char", "CharGroup"} -> SizeOk(1)
      [] OTHER                  -> SizeErr

\* ------------------------------------------------------------------------
\* RegexClass::matches  (Result<(bool, usize)>)
\*
\* matches(node, h, pos) is node.matches(&h[pos..]) for a slice &h[pos..]
\* that exists.  Its outcome is
\*   k = "Ok"    Ok((m, n))
\*   k = "Err"   Err (a placeholder class)
\*   k = "Panic" a slice &haystack[consumed..] off a character boundary
\*   k = "Hang"  the loop of OneOrMore never ends
\* ------------------------------------------------------------------------

MatchOk(m, n) == [k |-> "Ok", m |-> m, n |-> n]
MatchErr      == [k |-> "Err", m |-> FALSE, n |-> 0]
MatchPanic    == [k |-> "Panic", m |-> FALSE, n |-> 0]
MatchHang     == [k |-> "Hang", m |-> FALSE, n |-> 0]

\* regex.rs 21-29: macro simple_match!
simple_match(expression) == IF expression THEN MatchOk(TRUE, 1) ELSE MatchOk(FALSE, 0)

\* regex.rs 73: '0'..='9' | 'a'..='z' | 'A'..='Z' | '_'
is_alphanum(c) == c \in DigitChars \cup LetterChars \cup {"_"}

RECURSIVE matches(_, _, _)
RECURSIVE one_or_more_loop(_, _, _, _)
RECURSIVE sequence_loop(_, _, _, _, _)
RECURSIVE alternation_loop(_, _, _, _)

\* The loop of OneOrMore stopping after the first repetition that matches.
one_or_more_loop_once(pat, h, pos, consumed) ==
    IF ~slice_ok(h, pos + consumed)
    THEN MatchPanic
    ELSE LET r == matches(pat, h, pos + consumed) IN
         CASE r.k # "Ok" -> r
           [] ~r.m       -> MatchOk(consumed > 0, consumed)
           [] OTHER      -> MatchOk(TRUE, consumed + r.n)

\* regex.rs 93-102: the loop of OneOrMore with `consumed` so far.  An
\* iteration that matches with length 0 leaves `consumed` as it was, so the
\* next iteration repeats it: the loop never ends.
one_or_more_loop(pat, h, pos, consumed) ==
    IF ~slice_ok(h, pos + consumed)
    THEN MatchPanic
    ELSE LET r == matches(pat, h, pos + consumed) IN
         CASE r.k # "Ok" -> r
           [] ~r.m       -> MatchOk(consumed > 0, consumed)
           [] r.n = 0    -> MatchHang
           [] OTHER      -> one_or_more_loop(pat, h, pos, consumed + r.n)

\* The for loop of Sequence reporting what it consumed when a child fails.
sequence_loop_keep_consumed(seq, k, h, pos, consumed) ==
    IF k > Len(seq)
    THEN MatchOk(TRUE, consumed)
    ELSE IF ~slice_ok(h, pos + consumed)
         THEN MatchPanic
         ELSE LET r == matches(seq[k], h, pos + consumed) IN
              CASE r.k # "Ok" -> r
                [] ~r.m       -> MatchOk(FALSE, consumed)
                [] OTHER      -> sequence_loop(seq, k + 1, h, pos, consumed + r.n)

\* regex.rs 108-119: the for loop of Sequence from child k.
sequence_loop(seq, k, h, pos, consumed) ==
    IF k > Len(seq)
    THEN MatchOk(TRUE, consumed)
    ELSE IF ~slice_ok(h, pos + consumed)
         THEN MatchPanic
         ELSE LET r == matches(seq[k], h, pos + consumed) IN
              CASE r.k # "Ok" -> r
                [] ~r.m       -> MatchOk(FALSE, 0)
                [] OTHER      -> sequence_loop(seq, k + 1, h, pos, consumed + r.n)

\* regex.rs 122-129: the for loop of Alternation from branch k.
alternation_loop(seq, k, h, pos) ==
    IF k > Len(seq)
    THEN MatchOk(FALSE, 0)
    ELSE LET r == matches(seq[k], h, pos) IN
         CASE r.k # "Ok" -> r
           [] r.m        -> MatchOk(TRUE, r.n)
           [] OTHER      -> alternation_loop(seq, k + 1, h, pos)

\* regex.rs 104-106: (true, pat.matches(haystack)?.1)
optional_match(pat, h, pos) ==
    LET r == matches(pat, h, pos) IN
    IF r.k # "Ok" THEN r ELSE MatchOk(TRUE, r.n)

\* regex.rs 57-135
matches(node, h, pos) ==
    LET next == first_char(h, pos) IN
    CASE node.t = "Char" ->
           simple_match(next # <<>> /\ next[1] = node.c)
      [] node.t = "Digit" ->
           simple_match(next # <<>> /\ next[1] \in DigitChars)
      [] node.t = "AlphaNum" ->
           simple_match(next # <<>> /\ is_alphanum(next[1]))
      [] node.t = "Wildcard" ->
           simple_match(next # <<>> /\ next[1] # LF)
      [] node.t = "CharGroup" ->
           simple_match(next # <<>> /\
                        IF next[1] \in Range(node.set) THEN node.pol ELSE ~node.pol)
      [] node.t = "OneOrMore"   -> one_or_more_loop(node.kids[1], h, pos, 0)
      [] node.t = "Optional"    -> optional_match(node.kids[1], h, pos)
      [] node.t = "Sequence"    -> sequence_loop(node.kids, 1, h, pos, 0)
      [] node.t = "Alternation" -> alternation_loop(node.kids, 1, h, pos)
      [] OTHER                  -> MatchErr

\* ------------------------------------------------------------------------
\* Inputs
\* ------------------------------------------------------------------------

\* All strings over the alphabet A of at most n characters.
Strs(A, n) == UNION {[1..k -> A] : k \in 0..n}

\* Bounds of the model: the longest pattern of the exhaustive families, the
\* longest haystack, the longest alternative of a group pattern and the
\* longest body of a bracket expression.
MaxPatLen == 3
MaxHayLen == 2
MaxAltLen == 2
MaxSetLen == 3

\* Every string over the syntax characters, for the parser.
PatternAlphabet ==
    {"a", "\\", "(", ")", "|", "+", "?", "[", "]", "^", "$"}

GeneralPatterns == Strs(PatternAlphabet, MaxPatLen)

\* Every string over a literal, the wildcard, quantifiers and anchors, for
\* the matcher.
QuantifierAlphabet == {"a", ".", "+", "?", "^", "$"}

QuantifierPatterns == Strs(QuantifierAlphabet, MaxPatLen)

\* Patterns of ordinary literal characters only.
LiteralAlphabet == {"a", "1", LF}

LiteralPatterns == Strs(LiteralAlphabet, MaxPatLen)

\* Groups (A), (A|B) of literal alternatives.
Alternatives == Strs({"a", "1"}, MaxAltLen)

GroupPatterns ==
    {<<"(">> \o A \o <<")">> : A \in Alternatives}
    \cup {<<"(">> \o AB[1] \o <<"|">> \o AB[2] \o <<")">> :
            AB \in Alternatives \X Alternatives}

\* Bracket expressions [...] closed by ]
BracketPatterns ==
    {<<"[">> \o body \o <<"]">> : body \in Strs({"a", "1", "^"}, MaxSetLen)}

\* The single-character atoms X of the patterns X+X
Atoms ==
    {<<c>> : c \in {"a", "1", "$", "^", "|", ")", "]", LF, Wide}}
    \cup {<<".">>, <<"\\", "d">>, <<"\\", "w">>, <<"\\", "+">>,
          <<"\\", "$">>, <<"\\", "\\">>}
    \cup {<<"[", "a", "]">>, <<"[", "^", "a", "]">>, <<"[", "a", "1", "]">>,
          <<"[", "$", "]">>}

RepeatPatterns == {X \o <<"+">> \o X : X \in Atoms}

\* An escape \c (c neither d nor w) in every context: at the top level, in
\* a group, in an alternative, before a quantifier, at the end.
EscapedChars == {"+", "?", ".", "[", "(", ")", "|", "$", "^", "\\", "a"}

EscapePrefixes ==
    {<<>>, <<"a">>, <<"^">>, <<"(">>, <<"(", "a">>, <<"(", "a", "|">>}

EscapeSuffixes ==
    {<<>>, <<"a">>, <<"+">>, <<"$">>, <<")">>, <<"|", "a", ")">>}

EscapePatterns ==
    {t[1] \o <<"\\", t[2]>> \o t[3] :
        t \in EscapePrefixes \X EscapedChars \X EscapeSuffixes}

\* The patterns is_contained_in is run on with every haystack of at most
\* MaxHayLen characters; the other patterns are parsed, and run on the
\* haystacks of at most one character.
MatcherPatterns ==
    QuantifierPatterns \cup LiteralPatterns \cup GroupPatterns
    \cup BracketPatterns \cup RepeatPatterns

Patterns == GeneralPatterns \cup MatcherPatterns \cup EscapePatterns

HaystackAlphabet == {"a", "1", "$", LF, Wide}

Haystacks == Strs(HaystackAlphabet, MaxHayLen)

HaystacksFor(p) ==
    IF p \in MatcherPatterns
    THEN Haystacks
    ELSE {h \in Haystacks : Len(h) <= 1}

\* ------------------------------------------------------------------------
\* The program: RegexPattern::parse(pattern), then is_contained_in(haystack)
\* on the pattern parsed.
\*
\* pc        "new"          nothing done yet
\*           "parse_error"  parse returned Err
\*           "parsed"       parse returned the RegexPattern `regex`
\*           "entered"      is_contained_in has computed hlen and min_size
\*           "scan"         in the for loop, about to try `offset`
\*           "returned"     is_contained_in returned `outcome` (Ok or Err)
\*           "panicked"     a slice of the haystack panicked
\*           "hung"         is_contained_in is in a loop that never ends
\* ------------------------------------------------------------------------

VARIABLES pattern, pc, regex, haystack, hlen, minsz, offset, outcome

vars == <<pattern, pc, regex, haystack, hlen, minsz, offset, outcome>>

NoOutcome   == [k |-> "None", v |-> FALSE]
OutOk(v)    == [k |-> "Ok", v |-> v]
OutErr      == [k |-> "Err", v |-> FALSE]

Init ==
    /\ pattern \in Patterns
    /\ pc = "new"
    /\ regex = PatternErr("")
    /\ haystack = <<>>
    /\ hlen = 0
    /\ minsz = 0
    /\ offset = 0
    /\ outcome = NoOutcome

\* regex.rs 238-257
Parse ==
    /\ pc = "new"
    /\ regex' = parse(pattern)
    /\ pc' = IF regex'.ok THEN "parsed" ELSE "parse_error"
    /\ UNCHANGED <<pattern, haystack, hlen, minsz, offset, outcome>>

\* regex.rs 259-261: the call, len_no_newline and min_size()?
Call(h) ==
    /\ pc = "parsed"
    /\ haystack' = h
    /\ hlen' = len_no_newline(h)
    /\ LET size == min_size(regex.sequence) IN
       IF size.ok
       THEN /\ minsz' = size.v
            /\ pc' = "entered"
            /\ outcome' = outcome
       ELSE /\ minsz' = minsz
            /\ pc' = "returned"
            /\ outcome' = OutErr
    /\ UNCHANGED <<pattern, regex, offset>>

\* How is_contained_in ends when a call of matches does not return Ok:
\* the `?` returns the Err; a panic or an endless loop is its own.
Leave(r) ==
    CASE r.k = "Err"   -> /\ pc' = "returned" /\ outcome' = OutErr
      [] r.k = "Panic" -> /\ pc' = "panicked" /\ outcome' = outcome
      [] r.k = "Hang"  -> /\ pc' = "hung"     /\ outcome' = outcome

\* regex.rs 262-264
ReturnEarly ==
    /\ pc = "entered"
    /\ minsz > hlen
    /\ pc' = "returned"
    /\ outcome' = OutOk(FALSE)
    /\ UNCHANGED <<pattern, regex, haystack, hlen, minsz, offset>>

\* regex.rs 266-273
MatchAtStart ==
    /\ pc = "entered"
    /\ minsz <= hlen
    /\ regex.at_start
    /\ LET r == matches(regex.sequence, haystack, 0) IN
       IF r.k = "Ok"
       THEN /\ pc' = "returned"
            /\ outcome' = IF regex.until_end
                          THEN OutOk(r.m /\ r.n = hlen)
                          ELSE OutOk(r.m)
       ELSE Leave(r)
    /\ UNCHANGED <<pattern, regex, haystack, hlen, minsz, offset>>

\* regex.rs 275: the range 0..=(hlen - min_size) starts
BeginScan ==
    /\ pc = "entered"
    /\ minsz <= hlen
    /\ ~regex.at_start
    /\ pc' = "scan"
    /\ offset' = 0
    /\ UNCHANGED <<pattern, regex, haystack, hlen, minsz, outcome>>

\* regex.rs 275-284: one iteration of the for loop, and the return after it
ScanStep ==
    /\ pc = "scan"
    /\ IF ~slice_ok(haystack, offset)
       THEN /\ pc' = "panicked"
            /\ UNCHANGED <<outcome, offset>>
       ELSE LET r == matches(regex.sequence, haystack, offset) IN
            IF r.k # "Ok"
            THEN Leave(r) /\ offset' = offset
            ELSE IF r.m /\ ~(regex.until_end /\ r.n # hlen - offset)
                 THEN /\ pc' = "returned"
                      /\ outcome' = OutOk(TRUE)
                      /\ offset' = offset
                 ELSE IF offset < hlen - minsz
                      THEN /\ offset' = offset + 1
                           /\ UNCHANGED <<pc, outcome>>
                      ELSE /\ pc' = "returned"
                           /\ outcome' = OutOk(FALSE)
                           /\ offset' = offset
    /\ UNCHANGED <<pattern, regex, haystack, hlen, minsz>>

Next ==
    \/ Parse
    \/ \E h \in HaystacksFor(pattern) : Call(h)
    \/ ReturnEarly
    \/ MatchAtStart
    \/ BeginScan
    \/ ScanStep

Spec == Init /\ [][Next]_vars


\* ------------------------------------------------------------------------
\* Properties
\* ------------------------------------------------------------------------

\* is_contained_in is over: it returned, panicked, or will never return.
Finished == {"returned", "panicked", "hung"}

RECURSIVE Nodes(_)
\* The nodes of a tree.
Nodes(node) ==
    {node} \cup UNION {Nodes(node.kids[i]) : i \in 1..Len(node.kids)}

\* The byte indices at which a suffix of h starts.
Boundaries(h) == {byte_index(h, k) : k \in 0..Len(h)}

\* P occurs in H as a contiguous substring.
IsSubstring(P, H) ==
    \E k \in 0..(Len(H) - Len(P)) : SubSeq(H, k + 1, k + Len(P)) = P

\* P is a prefix of the suffix of H that starts at byte index pos.
IsPrefixAt(P, H, pos) ==
    \E k \in 0..(Len(H) - Len(P)) :
        byte_index(H, k) = pos /\ SubSeq(H, k + 1, k + Len(P)) = P

\* C1: for every pattern parse accepts and every haystack, is_contained_in
\* terminates: no loop of matches, the loop of OneOrMore included, runs
\* forever, also when the repeated node matches without consuming.
C1_Terminates == pc # "hung"

\* A pattern of ordinary literal characters only.
IsLiteralPattern(p) ==
    /\ Range(p) \cap {"\\", "[", "]", "(", ")", "+", "?", "."} = {}
    /\ ~starts_with(p, "^")
    /\ ~ends_with(p, "$")

\* C2: for a pattern P of ordinary literal characters and a haystack H,
\* is_contained_in returns Ok(true) if and only if P is a substring of H
\* (and Ok(false) otherwise).
C2_SubstringSearch ==
    (pc \in Finished /\ IsLiteralPattern(pattern))
        => outcome = OutOk(IsSubstring(pattern, haystack))

\* The candidate offsets of C3: none when min_size exceeds the effective
\* length, 0 alone under at_start, else 0 ..= effective_length - min_size.
C3_Candidates ==
    LET size == min_size(regex.sequence).v
        len  == len_no_newline(haystack)
    IN  IF size > len THEN {}
        ELSE IF regex.at_start THEN {0}
        ELSE 0..(len - size)

\* An offset is accepted when the root matches the suffix at that offset
\* and, under until_end, consumes up to the effective length.
C3_Accepted(off) ==
    /\ slice_ok(haystack, off)
    /\ LET r == matches(regex.sequence, haystack, off) IN
       /\ r.k = "Ok"
       /\ r.m
       /\ regex.until_end => r.n = len_no_newline(haystack) - off

\* C3: is_contained_in returns Ok(true) exactly when some candidate offset
\* is accepted, and Ok(false) when there is no candidate or none is accepted.
C3_ScanContract ==
    pc \in Finished => outcome = OutOk(\E off \in C3_Candidates : C3_Accepted(off))

RECURSIVE C4_Scan(_, _, _)
\* The malformed shapes of C4, read off the pattern text p from character
\* i on, an escape \c being one literal: open is, for the top level and
\* every group open at i, whether its current sequence is still empty.
\* TRUE when p ends in an unescaped backslash, opens a bracket expression
\* that no ] closes, leaves a group open at the end, or has a + or ? with
\* no atom before it in its sequence.
C4_Scan(p, i, open) ==
    LET filled == [open EXCEPT ![Len(open)] = FALSE] IN
    IF i >= Len(p)
    THEN Len(open) > 1
    ELSE LET chr == p[i + 1] IN
         CASE chr = "\\" ->
                IF i + 1 >= Len(p) THEN TRUE ELSE C4_Scan(p, i + 2, filled)
           [] chr = "[" ->
                IF \E j \in (i + 2)..Len(p) : p[j] = "]"
                THEN C4_Scan(p, CHOOSE j \in (i + 2)..Len(p) :
                                   /\ p[j] = "]"
                                   /\ \A l \in (i + 2)..(j - 1) : p[l] # "]",
                             filled)
                ELSE TRUE
           [] chr = "(" -> C4_Scan(p, i + 1, Append(filled, TRUE))
           [] chr = ")" /\ Len(open) > 1 ->
                C4_Scan(p, i + 1, SubSeq(open, 1, Len(open) - 1))
           [] chr = "|" /\ Len(open) > 1 ->
                C4_Scan(p, i + 1, [open EXCEPT ![Len(open)] = TRUE])
           [] chr \in {"+", "?"} ->
                IF open[Len(open)] THEN TRUE ELSE C4_Scan(p, i + 1, open)
           [] OTHER -> C4_Scan(p, i + 1, filled)

\* p without its leading ^ anchor and its trailing (unescaped) $ anchor.
C4_Body(p) ==
    LET p1 == IF starts_with(p, "^") THEN SubSeq(p, 2, Len(p)) ELSE p
    IN  IF ends_with(p1, "$") /\ ~(Len(p1) > 1 /\ p1[Len(p1) - 1] = "\\")
        THEN SubSeq(p1, 1, Len(p1) - 1)
        ELSE p1

C4_Malformed(p) == C4_Scan(C4_Body(p), 0, <<TRUE>>)

\* C4: parse returns an error for every pattern that ends in an unescaped
\* backslash, has a [ without ], a ( without its closing ), or a + or ?
\* without a preceding atom in its own sequence.
C4_MalformedRejected ==
    (pc # "new" /\ C4_Malformed(pattern)) => ~regex.ok

\* C5: for every single-character atom X and every haystack, the pattern
\* X+X is never contained in the haystack (greedy repetition, no
\* backtracking).
C5_GreedyNeverContained ==
    pattern \in RepeatPatterns => outcome # OutOk(TRUE)

\* C5 as amended: the same for every single-character atom X other than a
\* bare $, whose second occurrence in $+$ is the end anchor.
C5_GreedyNeverContainedAmended ==
    pattern \in {X \o <<"+">> \o X : X \in Atoms \ {<<"$">>}}
        => outcome # OutOk(TRUE)

\* a+a was run on a haystack that starts with aa, and was not found.
C5_Witness ==
    /\ pattern = <<"a", "+", "a">>
    /\ haystack = <<"a", "a">>
    /\ pc = "returned"
    /\ outcome = OutOk(FALSE)

RECURSIVE C6_Split(_, _)
\* The alternatives of the body of a group of literals: body split at |,
\* cur being the alternative collected so far.
C6_Split(body, cur) ==
    IF body = <<>> THEN <<cur>>
    ELSE IF Head(body) = "|" THEN <<cur>> \o C6_Split(Tail(body), <<>>)
    ELSE C6_Split(Tail(body), Append(cur, Head(body)))

C6_Alternatives(p) == C6_Split(SubSeq(p, 2, Len(p) - 1), <<>>)

\* What the group of alternatives alts yields on the suffix of h at pos:
\* the length of the first alternative, in order, that is a prefix of it.
C6_FirstBranch(alts, h, pos) ==
    IF \E i \in 1..Len(alts) : IsPrefixAt(alts[i], h, pos)
    THEN MatchOk(TRUE, Len(alts[CHOOSE i \in 1..Len(alts) :
                                   /\ IsPrefixAt(alts[i], h, pos)
                                   /\ \A j \in 1..(i - 1) : ~IsPrefixAt(alts[j], h, pos)]))
    ELSE MatchOk(FALSE, 0)

\* C6: for a group (A|B|...) of literal alternatives, is_contained_in
\* returns Ok(true) if and only if some alternative is a substring of the
\* haystack; on one suffix the first alternative, in order, that matches
\* gives the consumed length.
C6_LiteralAlternation ==
    (pc \in Finished /\ pattern \in GroupPatterns) =>
        LET alts == C6_Alternatives(pattern) IN
        /\ outcome = OutOk(\E i \in 1..Len(alts) : IsSubstring(alts[i], haystack))
        /\ \A pos \in Boundaries(haystack) :
              matches(regex.sequence, haystack, pos) = C6_FirstBranch(alts, haystack, pos)

\* C7: the tree of a parsed pattern has a Sequence at its root, every
\* Alternation has at least one branch and Sequences for branches, no
\* Empty or placeholder node occurs in it; so min_size and matches (on any
\* suffix of the haystack of the call) do not fail and is_contained_in
\* never returns Err.
C7_WellFormedTree ==
    regex.ok =>
        /\ regex.sequence.t = "Sequence"
        /\ \A n \in Nodes(regex.sequence) :
              /\ n.t \notin {"Empty", "OneOrMorePlaceholder", "OptionalPlaceholder"}
              /\ n.t = "Alternation" =>
                    /\ Len(n.kids) >= 1
                    /\ \A i \in 1..Len(n.kids) : n.kids[i].t = "Sequence"
        /\ min_size(regex.sequence).ok
        /\ pc = "entered" =>
              \A pos \in Boundaries(haystack) :
                 matches(regex.sequence, haystack, pos).k # "Err"
        /\ outcome.k # "Err"

\* is_contained_in returned Ok(true) for a pattern with a group of two
\* alternatives.
C7_Witness ==
    /\ pc = "returned"
    /\ outcome = OutOk(TRUE)
    /\ \E n \in Nodes(regex.sequence) :
          /\ n.t = "Alternation"
          /\ Len(n.kids) = 2

RECURSIVE C8_Subst(_, _, _)
\* The tree with every Char(z) replaced by Char(c).
C8_Subst(node, z, c) ==
    IF node.t = "Char" /\ node.c = z
    THEN Char(c)
    ELSE [node EXCEPT !.kids = [i \in 1..Len(node.kids) |-> C8_Subst(node.kids[i], z, c)]]

\* C8: a backslash followed by a character c other than d and w is the
\* literal c wherever it occurs: the pattern parses as the same pattern
\* with an ordinary letter in place of the escape does, with Char(c) for
\* that letter.
C8_EscapeIsLiteral ==
    pc # "new" =>
        \A t \in EscapePrefixes \X EscapedChars \X EscapeSuffixes :
            pattern = t[1] \o <<"\\", t[2]>> \o t[3] =>
                LET plain == parse(t[1] \o <<"z">> \o t[3]) IN
                plain.ok =>
                    /\ regex.ok
                    /\ regex.at_start = plain.at_start
                    /\ regex.until_end = plain.until_end
                    /\ regex.sequence = C8_Subst(plain.sequence, "z", t[2])

\* C9: for a bracket expression closed by ], the CharGroup has polarity
\* false exactly when the first character after [ is ^, and its set holds
\* exactly the other characters between the brackets, each once.
C9_BracketSet ==
    (pc # "new" /\ pattern \in BracketPatterns) =>
        LET body    == SubSeq(pattern, 2, Len(pattern) - 1)
            negated == starts_with(body, "^")
            members == IF negated THEN Tail(body) ELSE body
        IN  /\ regex.ok
            /\ Len(regex.sequence.kids) = 1
            /\ LET group == regex.sequence.kids[1] IN
               /\ group.t = "CharGroup"
               /\ group.pol = ~negated
               /\ Range(group.set) = Range(members)
               /\ Cardinality(Range(group.set)) = Len(group.set)

\* C10: for every node of a parsed tree and every suffix s of the
\* haystack, matches returning (true, n) implies min_size(node) <= n <=
\* len(s), and (false, n) implies n = 0; the offsets the scan slices at
\* are not past the end of the haystack.
C10_ConsumedBounds ==
    /\ pc = "entered" =>
          \A node \in Nodes(regex.sequence) :
          \A pos \in Boundaries(haystack) :
             LET r == matches(node, haystack, pos) IN
             r.k = "Ok" =>
                /\ r.m => /\ min_size(node).v <= r.n
                          /\ r.n <= byte_len(haystack) - pos
                /\ ~r.m => r.n = 0
    /\ pc = "scan" => offset <= byte_len(haystack)

\* An Optional whose inner node does not match yields (true, 0) and a
\* OneOrMore consumes two characters, in one tree on one haystack.
C10_Witness ==
    /\ pc = "entered"
    /\ \E node \in Nodes(regex.sequence) :
          /\ node.t = "Optional"
          /\ \E pos \in Boundaries(haystack) :
                /\ matches(node.kids[1], haystack, pos) = MatchOk(FALSE, 0)
                /\ matches(node, haystack, pos) = MatchOk(TRUE, 0)
    /\ \E node \in Nodes(regex.sequence) :
          /\ node.t = "OneOrMore"
          /\ matches(node, haystack, 0) = MatchOk(TRUE, 2)


=============================================================================
